---- MODULE Spec2Model ----
(***************************************************************************)
(* Model of src/daemon.py: the single-instance watcher daemon.             *)
(*                                                                         *)
(* Every launched process runs init_daemon: it calls                       *)
(* daemon_already_running (pid-file read / liveness check / write), and    *)
(* when that returns False it starts the monitor_terminal thread and       *)
(* feeds it the lines of standard input through a FIFO queue.              *)
(***************************************************************************)
EXTENDS Integers, Sequences, FiniteSets, TLC

\* ------------------------------------------------------------------ bounds
NProcs == 3        \* launch attempts (process identifiers 1..NProcs)
MaxLines == 2      \* entries the ingestion loop reads from standard input
MaxMtime == 3      \* last modification timestamp the config file reaches

Procs == 1..NProcs

VARIABLES
    pidFile,           \* ~/.catcher/daemon.pid : [exists, text]
    cfgFile,           \* ~/.catcher/config.json : [doc, mtime]
    pc,                \* pc[p]  : position of p's main thread (init_daemon)
    pid,               \* pid[p] : local `pid` of daemon_already_running
                       \*          (0 outside the call)
    monPc,             \* monPc[p] : position of p's monitor_terminal thread
    queue,             \* queue[p] : the Queue() of init_daemon
    eof,               \* eof[p] : sys.stdin has reached end of input
    config,            \* config[p] : local `config` of monitor_terminal
    last_modified,     \* last_modified[p] : local of monitor_terminal
    current_modified,  \* current_modified[p] : local of check_config_update
                       \*          (0 outside the call)
    line,              \* line[p] : local `line` of monitor_terminal
    idx,               \* idx[p] : position of the `for error in ...` loop
                       \*          (0 outside the loop)
    enqueued,          \* enqueued[p] : every entry ever put on queue[p]
    consumed,          \* consumed[p] : every entry ever got from queue[p]
    executed,          \* executed[p] : every execute_in_terminal call made
    status,            \* status[p] : what os.system returned for the latest
                       \*          action of the current line (0: success or
                       \*          none yet, 1: failure)
    seen               \* seen[p] : the modification timestamp the latest
                       \*          check_config_update call read

lockVars == <<pidFile, pc, pid>>
mainVars == <<queue, eof, enqueued>>
monVars == <<monPc, config, last_modified, current_modified, line, idx,
             consumed, executed, status, seen>>
vars == <<pidFile, cfgFile, pc, pid, monPc, queue, eof, config, last_modified,
          current_modified, line, idx, enqueued, consumed, executed, status,
          seen>>

\* ------------------------------------------------------------ pid file
NoPidFile == [exists |-> FALSE, text |-> <<>>]
\* open(pid_file, 'w') truncates: the file exists and is empty until the
\* buffered write is flushed when the `with` block closes it.
Truncated == [exists |-> TRUE, text |-> <<>>]
PidText(p) == [exists |-> TRUE, text |-> <<p>>]

\* positions of the main thread inside daemon_already_running
LockPcs == {"init", "read", "proc", "open_w", "write"}
\* positions at which the main thread has ended
EndedPcs == {"finished", "aborted"}
\* positions at which the monitor thread is not running
MonEndedPcs == {"none", "done", "crashed"}

\* the process is gone: killed, or all its non-daemon threads have ended
Stopped(p) ==
    \/ pc[p] = "dead"
    \/ pc[p] \in EndedPcs /\ monPc[p] \in MonEndedPcs

\* os.path.exists(f'/proc/{pid}') : the processes currently in the table
Alive == {p \in Procs : pc[p] # "idle" /\ ~Stopped(p)}

\* the process has acquired and started its ingestion/dispatcher pipeline
Running(p) == p \in Alive /\ monPc[p] # "none"

\* (variant of LockStep: the liveness of the recorded process is not checked)
LockStepIgnoresLiveness(l, p, live) ==
    CASE l.pc = "init" ->
            IF l.file.exists THEN [l EXCEPT !.pc = "read"]
                             ELSE [l EXCEPT !.pc = "open_w"]
      [] l.pc = "read" ->
            IF ~l.file.exists \/ l.file.text = <<>>
            THEN [l EXCEPT !.pc = "aborted"]
            ELSE [l EXCEPT !.pc = "proc", !.pid = l.file.text[1]]
      [] l.pc = "proc" -> [l EXCEPT !.pc = "open_w"]
      [] l.pc = "open_w" -> [l EXCEPT !.pc = "write", !.file = Truncated]
      [] l.pc = "write" -> [l EXCEPT !.pc = "spawn", !.pid = 0, !.file = PidText(p)]
      [] OTHER -> l

\* (variant of LockStep: a stale record is not overwritten)
LockStepSkipsWrite(l, p, live) ==
    CASE l.pc = "init" ->
            IF l.file.exists THEN [l EXCEPT !.pc = "read"]
                             ELSE [l EXCEPT !.pc = "open_w"]
      [] l.pc = "read" ->
            IF ~l.file.exists \/ l.file.text = <<>>
            THEN [l EXCEPT !.pc = "aborted"]
            ELSE [l EXCEPT !.pc = "proc", !.pid = l.file.text[1]]
      [] l.pc = "proc" ->
            IF l.pid \in live THEN [l EXCEPT !.pc = "already", !.pid = 0]
                              ELSE [l EXCEPT !.pc = "spawn", !.pid = 0]
      [] l.pc = "open_w" -> [l EXCEPT !.pc = "write", !.file = Truncated]
      [] l.pc = "write" -> [l EXCEPT !.pc = "spawn", !.pid = 0, !.file = PidText(p)]
      [] OTHER -> l

\* One step of daemon_already_running for process p on the local state
\* l = [pc, pid, file], with `live` the process table.
LockStep(l, p, live) ==
    CASE l.pc = "init" ->                       \* os.path.exists(pid_file)
            IF l.file.exists THEN [l EXCEPT !.pc = "read"]
                             ELSE [l EXCEPT !.pc = "open_w"]
      [] l.pc = "read" ->                       \* int(file.read().strip())
            IF ~l.file.exists \/ l.file.text = <<>>
            THEN [l EXCEPT !.pc = "aborted"]    \* uncaught OSError/ValueError
            ELSE [l EXCEPT !.pc = "proc", !.pid = l.file.text[1]]
      [] l.pc = "proc" ->                       \* os.path.exists('/proc/pid')
            IF l.pid \in live THEN [l EXCEPT !.pc = "already", !.pid = 0]
                              ELSE [l EXCEPT !.pc = "open_w"]
      [] l.pc = "open_w" ->                     \* open(pid_file, 'w')
            [l EXCEPT !.pc = "write", !.file = Truncated]
      [] l.pc = "write" ->                      \* write, close, return False
            [l EXCEPT !.pc = "spawn", !.pid = 0, !.file = PidText(p)]
      [] OTHER -> l

\* daemon_already_running run from its call to its return (or its exception)
RECURSIVE RunLock(_, _, _)
RunLock(l, p, live) ==
    IF l.pc \in LockPcs THEN RunLock(LockStep(l, p, live), p, live) ELSE l

LockLocal(p) == [pc |-> pc[p], pid |-> pid[p], file |-> pidFile]

SetLock(p, l) ==
    /\ pc' = [pc EXCEPT ![p] = l.pc]
    /\ pid' = [pid EXCEPT ![p] = l.pid]
    /\ pidFile' = l.file

\* ------------------------------------------------------------ lock actions
\* the shell profile line `python /path/to/daemon.py &` starts process p
Launch(p) ==
    /\ pc[p] = "idle"
    /\ pc' = [pc EXCEPT ![p] = "init"]
    /\ UNCHANGED <<pidFile, cfgFile, pid, mainVars, monVars>>

\* one system call of daemon_already_running; other processes may interleave
AcquireStep(p) ==
    /\ pc[p] \in LockPcs
    /\ SetLock(p, LockStep(LockLocal(p), p, Alive))
    /\ UNCHANGED <<cfgFile, mainVars, monVars>>

\* the whole of daemon_already_running with no other process interleaving
AcquireAtomic(p) ==
    /\ pc[p] = "init"
    /\ SetLock(p, RunLock(LockLocal(p), p, Alive))
    /\ UNCHANGED <<cfgFile, mainVars, monVars>>

\* (variant of AlreadyExit: the `return` is missing and init_daemon goes on)
AlreadyExitFallsThrough(p) ==
    /\ pc[p] = "already"
    /\ pc' = [pc EXCEPT ![p] = "spawn"]
    /\ UNCHANGED <<pidFile, cfgFile, pid, mainVars, monVars>>

\* print("Daemon already running."); return
AlreadyExit(p) ==
    /\ pc[p] = "already"
    /\ pc' = [pc EXCEPT ![p] = "finished"]
    /\ UNCHANGED <<pidFile, cfgFile, pid, mainVars, monVars>>

\* queue = Queue(); monitor_thread = Thread(...); monitor_thread.start()
Spawn(p) ==
    /\ pc[p] = "spawn"
    /\ pc' = [pc EXCEPT ![p] = "readline"]
    /\ monPc' = [monPc EXCEPT ![p] = "load"]
    /\ queue' = [queue EXCEPT ![p] = <<>>]
    /\ UNCHANGED <<pidFile, cfgFile, pid, eof, enqueued, config, last_modified,
                   current_modified, line, idx, consumed, executed>>
    /\ UNCHANGED <<status, seen>>

\* the process is killed from outside (SIGKILL, machine-level termination)
Kill(p) ==
    /\ p \in Alive
    /\ pc' = [pc EXCEPT ![p] = "dead"]
    /\ UNCHANGED <<pidFile, cfgFile, pid, mainVars, monVars>>

\* --------------------------------------------------- configuration file
\* What ~/.catcher/config.json holds: no file, text json.load rejects, the
\* JSON document {} (falsy, no 'errors' key), or {"errors": [rule, ...]}.
Missing == [kind |-> "missing", errors |-> <<>>]
Malformed == [kind |-> "malformed", errors |-> <<>>]
EmptyDoc == [kind |-> "empty", errors |-> <<>>]
RuleSet(rules) == [kind |-> "rules", errors |-> rules]
NoConfig == [kind |-> "none", errors |-> <<>>]

Rule(pat, act) == [pattern |-> pat, action |-> act]
RulesNone == RuleSet(<<>>)
RulesA == RuleSet(<<Rule(<<"b">>, "kill"), Rule(<<"a", "b">>, "retry"),
                    Rule(<<"b">>, "kill")>>)
RulesB == RuleSet(<<Rule(<<"a">>, "retry"), Rule(<<"b", "a">>, "page")>>)
Docs == {Missing, Malformed, EmptyDoc, RulesNone, RulesA, RulesB}

\* sys.stdin.readline(): a line with its newline, or '' at end of input
EOF == <<>>
Lines == {<<"a", "b", "\n">>, <<"b", "\n">>}

\* queue entries: a line of text, or None
Entry(t) == [none |-> FALSE, text |-> t]
None == [none |-> TRUE, text |-> <<>>]

\* load_config(): open() or json.load() raises
LoadFails(f) == f.doc.kind \in {"missing", "malformed"}
\* os.path.getmtime(config_path) raises
GetmtimeFails(f) == f.doc.kind = "missing"
\* Python truth value of a loaded document (`if new_config:`)
Truthy(doc) == doc.kind = "rules"

\* error['pattern'] in line : literal substring test
Contains(pat, s) ==
    \E i \in 0..(Len(s) - Len(pat)) : SubSeq(s, i + 1, i + Len(pat)) = pat

\* ------------------------------------------------------ main thread
\* line = sys.stdin.readline(); queue.put(line)
ReadLine(p) ==
    /\ pc[p] = "readline"
    /\ Len(enqueued[p]) < MaxLines
    /\ \E t \in (IF eof[p] THEN {EOF} ELSE Lines \cup {EOF}) :
          /\ queue' = [queue EXCEPT ![p] = Append(@, Entry(t))]
          /\ enqueued' = [enqueued EXCEPT ![p] = Append(@, Entry(t))]
          /\ eof' = [eof EXCEPT ![p] = (t = EOF)]
    /\ UNCHANGED <<pidFile, cfgFile, pc, pid, monVars>>

\* KeyboardInterrupt raised in the main thread: caught only inside `try`
Interrupt(p) ==
    /\ pc[p] \notin {"idle", "finished", "aborted", "dead"}
    /\ pc' = [pc EXCEPT ![p] = IF pc[p] = "readline" THEN "except"
                                                     ELSE "aborted"]
    /\ UNCHANGED <<pidFile, cfgFile, pid, mainVars, monVars>>

\* (variant of PutSentinel: the handler goes back to reading input)
PutSentinelResumes(p) ==
    /\ pc[p] = "except"
    /\ queue' = [queue EXCEPT ![p] = Append(@, None)]
    /\ enqueued' = [enqueued EXCEPT ![p] = Append(@, None)]
    /\ pc' = [pc EXCEPT ![p] = "readline"]
    /\ UNCHANGED <<pidFile, cfgFile, pid, eof, monVars>>

\* except KeyboardInterrupt: queue.put(None)
PutSentinel(p) ==
    /\ pc[p] = "except"
    /\ queue' = [queue EXCEPT ![p] = Append(@, None)]
    /\ enqueued' = [enqueued EXCEPT ![p] = Append(@, None)]
    /\ pc' = [pc EXCEPT ![p] = "join"]
    /\ UNCHANGED <<pidFile, cfgFile, pid, eof, monVars>>

\* monitor_thread.join() returns once the thread has ended
Join(p) ==
    /\ pc[p] = "join"
    /\ monPc[p] \in {"done", "crashed"}
    /\ pc' = [pc EXCEPT ![p] = "finished"]
    /\ UNCHANGED <<pidFile, cfgFile, pid, mainVars, monVars>>

\* ------------------------------------------------------ monitor thread
\* config = load_config()
MonLoad(p) ==
    /\ monPc[p] = "load"
    /\ IF LoadFails(cfgFile)
       THEN /\ monPc' = [monPc EXCEPT ![p] = "crashed"]
            /\ UNCHANGED config
       ELSE /\ monPc' = [monPc EXCEPT ![p] = "mtime"]
            /\ config' = [config EXCEPT ![p] = cfgFile.doc]
    /\ UNCHANGED <<pidFile, cfgFile, pc, pid, mainVars, last_modified,
                   current_modified, line, idx, consumed, executed>>
    /\ UNCHANGED <<status, seen>>

\* last_modified = os.path.getmtime(config_path)
MonMtime(p) ==
    /\ monPc[p] = "mtime"
    /\ IF GetmtimeFails(cfgFile)
       THEN /\ monPc' = [monPc EXCEPT ![p] = "crashed"]
            /\ UNCHANGED last_modified
       ELSE /\ monPc' = [monPc EXCEPT ![p] = "get"]
            /\ last_modified' = [last_modified EXCEPT ![p] = cfgFile.mtime]
    /\ UNCHANGED <<pidFile, cfgFile, pc, pid, mainVars, config,
                   current_modified, line, idx, consumed, executed>>
    /\ UNCHANGED <<status, seen>>

\* (variant of MonGet: the newest entry is taken instead of the oldest)
MonGetNewest(p) ==
    /\ monPc[p] = "get"
    /\ queue[p] # <<>>
    /\ queue' = [queue EXCEPT ![p] = SubSeq(@, 1, Len(@) - 1)]
    /\ consumed' = [consumed EXCEPT ![p] = Append(@, queue[p][Len(queue[p])])]
    /\ IF queue[p][Len(queue[p])].none
       THEN /\ monPc' = [monPc EXCEPT ![p] = "done"]
            /\ UNCHANGED line
       ELSE /\ monPc' = [monPc EXCEPT ![p] = "check"]
            /\ line' = [line EXCEPT ![p] = queue[p][Len(queue[p])].text]
    /\ UNCHANGED <<pidFile, cfgFile, pc, pid, eof, enqueued, config,
                   last_modified, current_modified, idx, executed>>
    /\ UNCHANGED <<status, seen>>

\* (variant of MonGet: None does not break the loop)
MonGetIgnoresNone(p) ==
    /\ monPc[p] = "get"
    /\ queue[p] # <<>>
    /\ queue' = [queue EXCEPT ![p] = Tail(@)]
    /\ consumed' = [consumed EXCEPT ![p] = Append(@, Head(queue[p]))]
    /\ IF Head(queue[p]).none
       THEN UNCHANGED <<monPc, line>>
       ELSE /\ monPc' = [monPc EXCEPT ![p] = "check"]
            /\ line' = [line EXCEPT ![p] = Head(queue[p]).text]
    /\ UNCHANGED <<pidFile, cfgFile, pc, pid, eof, enqueued, config,
                   last_modified, current_modified, idx, executed>>
    /\ UNCHANGED <<status, seen>>

\* line = queue.get(); if line is None: break
MonGet(p) ==
    /\ monPc[p] = "get"
    /\ queue[p] # <<>>
    /\ queue' = [queue EXCEPT ![p] = Tail(@)]
    /\ consumed' = [consumed EXCEPT ![p] = Append(@, Head(queue[p]))]
    /\ IF Head(queue[p]).none
       THEN /\ monPc' = [monPc EXCEPT ![p] = "done"]
            /\ UNCHANGED line
       ELSE /\ monPc' = [monPc EXCEPT ![p] = "check"]
            /\ line' = [line EXCEPT ![p] = Head(queue[p]).text]
    /\ UNCHANGED <<pidFile, cfgFile, pc, pid, eof, enqueued, config,
                   last_modified, current_modified, idx, executed>>
    /\ UNCHANGED <<status, seen>>

\* check_config_update: current_modified = os.path.getmtime(config_path)
\* and the comparison; on the unchanged branch it returns None, last_modified
MonCheck(p) ==
    /\ monPc[p] = "check"
    /\ IF GetmtimeFails(cfgFile)
       THEN /\ monPc' = [monPc EXCEPT ![p] = "crashed"]
            /\ UNCHANGED <<current_modified, idx>>
       ELSE IF cfgFile.mtime # last_modified[p]
       THEN /\ monPc' = [monPc EXCEPT ![p] = "reload"]
            /\ current_modified' =
                   [current_modified EXCEPT ![p] = cfgFile.mtime]
            /\ UNCHANGED idx
       ELSE /\ monPc' = [monPc EXCEPT ![p] = "match"]
            /\ idx' = [idx EXCEPT ![p] = 1]
            /\ UNCHANGED current_modified
    /\ UNCHANGED <<pidFile, cfgFile, pc, pid, mainVars, config, last_modified,
                   line, consumed, executed>>
    /\ seen' = IF GetmtimeFails(cfgFile) THEN seen
                ELSE [seen EXCEPT ![p] = cfgFile.mtime]
    /\ UNCHANGED status

\* (variant of MonReload: the timestamp of the reloaded file is not recorded)
MonReloadKeepsTimestamp(p) ==
    /\ monPc[p] = "reload"
    /\ IF LoadFails(cfgFile)
       THEN /\ monPc' = [monPc EXCEPT ![p] = "crashed"]
            /\ UNCHANGED <<config, idx>>
       ELSE /\ monPc' = [monPc EXCEPT ![p] = "match"]
            /\ config' = [config EXCEPT
                            ![p] = IF Truthy(cfgFile.doc) THEN cfgFile.doc
                                                          ELSE @]
            /\ idx' = [idx EXCEPT ![p] = 1]
    /\ current_modified' = [current_modified EXCEPT ![p] = 0]
    /\ UNCHANGED <<pidFile, cfgFile, pc, pid, mainVars, line, consumed,
                   executed, last_modified, status, seen>>

\* return load_config(), current_modified; if new_config: config = new_config
MonReload(p) ==
    /\ monPc[p] = "reload"
    /\ IF LoadFails(cfgFile)
       THEN /\ monPc' = [monPc EXCEPT ![p] = "crashed"]
            /\ UNCHANGED <<config, last_modified, idx>>
       ELSE /\ monPc' = [monPc EXCEPT ![p] = "match"]
            /\ last_modified' =
                   [last_modified EXCEPT ![p] = current_modified[p]]
            /\ config' = [config EXCEPT
                            ![p] = IF Truthy(cfgFile.doc) THEN cfgFile.doc
                                                          ELSE @]
            /\ idx' = [idx EXCEPT ![p] = 1]
    /\ current_modified' = [current_modified EXCEPT ![p] = 0]
    /\ UNCHANGED <<pidFile, cfgFile, pc, pid, mainVars, line, consumed,
                   executed>>
    /\ UNCHANGED <<status, seen>>

\* (variant of MonMatch: the loop stops at the first matching rule)
MonMatchFirstOnly(p) ==
    /\ monPc[p] = "match"
    /\ IF config[p].kind # "rules"
       THEN /\ monPc' = [monPc EXCEPT ![p] = "crashed"]
            /\ idx' = [idx EXCEPT ![p] = 0]
            /\ status' = [status EXCEPT ![p] = 0]
            /\ UNCHANGED executed
       ELSE IF idx[p] > Len(config[p].errors)
       THEN /\ monPc' = [monPc EXCEPT ![p] = "get"]
            /\ idx' = [idx EXCEPT ![p] = 0]
            /\ status' = [status EXCEPT ![p] = 0]
            /\ UNCHANGED executed
       ELSE IF ~Contains(config[p].errors[idx[p]].pattern, line[p])
       THEN /\ idx' = [idx EXCEPT ![p] = @ + 1]
            /\ UNCHANGED <<monPc, executed, status>>
       ELSE /\ idx' = [idx EXCEPT ![p] = Len(config[p].errors) + 1]
            /\ executed' = [executed EXCEPT ![p] =
                  Append(@, [line |-> Len(consumed[p]),
                             action |-> config[p].errors[idx[p]].action])]
            /\ \E st \in {0, 1} : status' = [status EXCEPT ![p] = st]
            /\ UNCHANGED monPc
    /\ UNCHANGED <<pidFile, cfgFile, pc, pid, mainVars, config, last_modified,
                   current_modified, line, consumed, seen>>

\* (variant of MonMatch: a line that matched no rule runs a default action)
MonMatchDefaultAction(p) ==
    /\ monPc[p] = "match"
    /\ IF config[p].kind # "rules"
       THEN /\ monPc' = [monPc EXCEPT ![p] = "crashed"]
            /\ idx' = [idx EXCEPT ![p] = 0]
            /\ status' = [status EXCEPT ![p] = 0]
            /\ UNCHANGED executed
       ELSE IF idx[p] > Len(config[p].errors)
       THEN /\ monPc' = [monPc EXCEPT ![p] = "get"]
            /\ idx' = [idx EXCEPT ![p] = 0]
            /\ status' = [status EXCEPT ![p] = 0]
            /\ executed' = [executed EXCEPT ![p] =
                  IF \E i \in 1..Len(@) : @[i].line = Len(consumed[p])
                  THEN @
                  ELSE Append(@, [line |-> Len(consumed[p]),
                                  action |-> "default"])]
       ELSE IF ~Contains(config[p].errors[idx[p]].pattern, line[p])
       THEN /\ idx' = [idx EXCEPT ![p] = @ + 1]
            /\ UNCHANGED <<monPc, executed, status>>
       ELSE /\ idx' = [idx EXCEPT ![p] = @ + 1]
            /\ executed' = [executed EXCEPT ![p] =
                  Append(@, [line |-> Len(consumed[p]),
                             action |-> config[p].errors[idx[p]].action])]
            /\ \E st \in {0, 1} : status' = [status EXCEPT ![p] = st]
            /\ UNCHANGED monPc
    /\ UNCHANGED <<pidFile, cfgFile, pc, pid, mainVars, config, last_modified,
                   current_modified, line, consumed, seen>>

\* (variant of MonMatch: a failing action raises, as check_call would)
MonMatchStopsOnFailure(p) ==
    /\ monPc[p] = "match"
    /\ IF config[p].kind # "rules"
       THEN /\ monPc' = [monPc EXCEPT ![p] = "crashed"]
            /\ idx' = [idx EXCEPT ![p] = 0]
            /\ status' = [status EXCEPT ![p] = 0]
            /\ UNCHANGED executed
       ELSE IF idx[p] > Len(config[p].errors)
       THEN /\ monPc' = [monPc EXCEPT ![p] = "get"]
            /\ idx' = [idx EXCEPT ![p] = 0]
            /\ status' = [status EXCEPT ![p] = 0]
            /\ UNCHANGED executed
       ELSE IF ~Contains(config[p].errors[idx[p]].pattern, line[p])
       THEN /\ idx' = [idx EXCEPT ![p] = @ + 1]
            /\ UNCHANGED <<monPc, executed, status>>
       ELSE /\ idx' = [idx EXCEPT ![p] = @ + 1]
            /\ executed' = [executed EXCEPT ![p] =
                  Append(@, [line |-> Len(consumed[p]),
                             action |-> config[p].errors[idx[p]].action])]
            /\ \E st \in {0, 1} :
                  /\ status' = [status EXCEPT ![p] = st]
                  /\ monPc' = [monPc EXCEPT ![p] = IF st = 0 THEN @
                                                            ELSE "crashed"]
    /\ UNCHANGED <<pidFile, cfgFile, pc, pid, mainVars, config, last_modified,
                   current_modified, line, consumed, seen>>

\* one iteration of `for error in config['errors']`, or the end of the loop
MonMatch(p) ==
    /\ monPc[p] = "match"
    /\ IF config[p].kind # "rules"                   \* KeyError: 'errors'
       THEN /\ monPc' = [monPc EXCEPT ![p] = "crashed"]
            /\ idx' = [idx EXCEPT ![p] = 0]
            /\ status' = [status EXCEPT ![p] = 0]
            /\ UNCHANGED executed
       ELSE IF idx[p] > Len(config[p].errors)
       THEN /\ monPc' = [monPc EXCEPT ![p] = "get"]
            /\ idx' = [idx EXCEPT ![p] = 0]
            /\ status' = [status EXCEPT ![p] = 0]
            /\ UNCHANGED executed
       ELSE IF ~Contains(config[p].errors[idx[p]].pattern, line[p])
       THEN /\ idx' = [idx EXCEPT ![p] = @ + 1]
            /\ UNCHANGED <<monPc, executed, status>>
       ELSE /\ idx' = [idx EXCEPT ![p] = @ + 1]      \* execute_in_terminal
            /\ executed' = [executed EXCEPT ![p] =
                  Append(@, [line |-> Len(consumed[p]),
                             action |-> config[p].errors[idx[p]].action])]
            /\ \E st \in {0, 1} : status' = [status EXCEPT ![p] = st]
            /\ UNCHANGED monPc
    /\ UNCHANGED <<pidFile, cfgFile, pc, pid, mainVars, config, last_modified,
                   current_modified, line, consumed, seen>>

\* ------------------------------------------------------ environment
\* the user edits, replaces or removes the configuration file
ModifyConfig ==
    /\ cfgFile.mtime < MaxMtime
    /\ \E d \in Docs : cfgFile' = [doc |-> d, mtime |-> cfgFile.mtime + 1]
    /\ UNCHANGED <<lockVars, mainVars, monVars>>

\* ------------------------------------------------------ specifications
Init ==
    /\ pidFile \in {NoPidFile} \cup {PidText(q) : q \in Procs}
    /\ cfgFile \in {[doc |-> d, mtime |-> 1] : d \in Docs}
    /\ pc = [p \in Procs |-> "idle"]
    /\ pid = [p \in Procs |-> 0]
    /\ monPc = [p \in Procs |-> "none"]
    /\ queue = [p \in Procs |-> <<>>]
    /\ eof = [p \in Procs |-> FALSE]
    /\ config = [p \in Procs |-> NoConfig]
    /\ last_modified = [p \in Procs |-> 0]
    /\ current_modified = [p \in Procs |-> 0]
    /\ line = [p \in Procs |-> <<>>]
    /\ idx = [p \in Procs |-> 0]
    /\ enqueued = [p \in Procs |-> <<>>]
    /\ consumed = [p \in Procs |-> <<>>]
    /\ executed = [p \in Procs |-> <<>>]
    /\ status = [p \in Procs |-> 0]
    /\ seen = [p \in Procs |-> 0]

\* the threads of one process
MainNext(p) ==
    \/ Launch(p) \/ AcquireStep(p) \/ AlreadyExit(p) \/ Spawn(p)
    \/ ReadLine(p) \/ Interrupt(p) \/ PutSentinel(p) \/ Join(p)
MonitorNext(p) ==
    \/ MonLoad(p) \/ MonMtime(p) \/ MonGet(p)
    \/ MonCheck(p) \/ MonReload(p) \/ MonMatch(p)

\* Spec: one launched process, all of its pipeline, and the config file
Watcher == 1
Next == MainNext(Watcher) \/ MonitorNext(Watcher) \/ ModifyConfig
Spec == Init /\ [][Next]_vars
\* the interpreter schedules a runnable monitor thread
FairSpec == Spec /\ WF_vars(MonitorNext(Watcher))

\* SpecRace: several launches whose pid-file system calls interleave
NextRace ==
    \E p \in Procs :
        Launch(p) \/ AcquireStep(p) \/ AlreadyExit(p) \/ Spawn(p) \/ Kill(p)
SpecRace == Init /\ [][NextRace]_vars

\* SpecAtomic: several launches, daemon_already_running never overlapping
NextAtomic ==
    \E p \in Procs :
        Launch(p) \/ AcquireAtomic(p) \/ AlreadyExit(p) \/ Spawn(p) \/ Kill(p)
SpecAtomic == Init /\ [][NextAtomic]_vars

\* ------------------------------------------------------ helpers of the claims
Last(s) == s[Len(s)]
IsPrefix(s, t) == Len(s) <= Len(t) /\ SubSeq(t, 1, Len(s)) = s
Min(a, b) == IF a < b THEN a ELSE b

\* the Sentinel has been put on p's queue / has been got from it
SentinelPushed(p) == \E i \in 1..Len(enqueued[p]) : enqueued[p][i].none
SentinelPopped(p) == \E i \in 1..Len(consumed[p]) : consumed[p][i].none

\* the actions executed for the k-th entry p's Dispatcher consumed, in order
ActionsFor(p, k) ==
    LET sel == SelectSeq(executed[p], LAMBDA e : e.line = k)
    IN  [i \in 1..Len(sel) |-> sel[i].action]

\* the actions of the rules whose pattern is a substring of l, in rule order
RECURSIVE MatchingActions(_, _)
MatchingActions(rules, l) ==
    IF rules = <<>> THEN <<>>
    ELSE (IF Contains(Head(rules).pattern, l) THEN <<Head(rules).action>>
                                               ELSE <<>>)
         \o MatchingActions(Tail(rules), l)

\* the record names a process identifier that is in the process table
RecordLive == pidFile.exists /\ pidFile.text # <<>> /\ pidFile.text[1] \in Alive
\* the record is absent, or names a process identifier that is not live
RecordStale ==
    \/ ~pidFile.exists
    \/ pidFile.text # <<>> /\ pidFile.text[1] \notin Alive
\* p's call of daemon_already_running happens in this step
Attempts(p) == pc[p] = "init" /\ pc'[p] \notin {"init", "dead"}

\* ------------------------------------------------------------------ claims

\* C1: across launch attempts whose read-record / check-liveness / write-pid
\* sequences interleave, at most one process is Running at any time.
C1_AtMostOneRunning == Cardinality({p \in Procs : Running(p)}) <= 1

\* C2: an acquisition attempt made while the record exists and names a live
\* process returns AlreadyRunning and leaves the record's content unchanged.
C2_LiveRecordKept ==
    [][\A p \in Procs :
          (Attempts(p) /\ RecordLive)
              => (pc'[p] = "already" /\ pidFile' = pidFile)]_vars
C2_Witness ==
    \E p \in Procs, q \in Procs :
        /\ p # q /\ pc[p] = "already" /\ Running(q)
        /\ pidFile = PidText(q)

\* C3: an acquisition attempt made while the record is absent, or names a
\* process that is not live, returns Acquired and leaves the caller's own
\* process identifier in the record.
C3_StaleRecordTaken ==
    [][\A p \in Procs :
          (Attempts(p) /\ RecordStale)
              => (pc'[p] = "spawn" /\ pidFile' = PidText(p))]_vars
C3_Witness ==
    \E p \in Procs, q \in Procs :
        /\ p # q /\ pc[q] = "dead" /\ monPc[q] = "load"
        /\ pc[p] = "spawn" /\ pidFile = PidText(p)

\* C4: while the Dispatcher works through its rule set R for a line L, the
\* actions executed for L so far are exactly the actions of the rules already
\* visited whose pattern is a substring of L, in R's order; at the end of the
\* loop they are the actions of all matching rules of R, one per occurrence.
C4_ActionsAreMatchingRules ==
    \A p \in Procs :
        (monPc[p] = "match" /\ config[p].kind = "rules")
            => ActionsFor(p, Len(consumed[p]))
                 = MatchingActions(
                      SubSeq(config[p].errors, 1,
                             Min(idx[p] - 1, Len(config[p].errors))),
                      line[p])
C4_Witness ==
    /\ monPc[Watcher] = "match" /\ config[Watcher] = RulesA
    /\ line[Watcher] = <<"b", "\n">> /\ idx[Watcher] = 4
    /\ ActionsFor(Watcher, Len(consumed[Watcher])) = <<"kill", "kill">>

\* C5: when the Dispatcher's refresh check for a line decides not to reload
\* while the file holds a rule set, the rule set the line is matched against
\* is the file's current one (a modified file with a changed timestamp is
\* picked up by the very next line).
C5_NextLineUsesNewRules ==
    [][\A p \in Procs :
          (monPc[p] = "check" /\ monPc'[p] = "match"
               /\ cfgFile.doc.kind = "rules")
              => config'[p] = cfgFile.doc]_vars

\* C6: the entries the Dispatcher has consumed are a prefix of the entries
\* Line Ingestion enqueued, and the rest are still queued in the same order.
C6_ConsumedIsPrefix ==
    \A p \in Procs :
        /\ IsPrefix(consumed[p], enqueued[p])
        /\ enqueued[p] = consumed[p] \o queue[p]
C6_Witness ==
    /\ Len(consumed[Watcher]) = 2
    /\ consumed[Watcher][1] # consumed[Watcher][2]
    /\ ~consumed[Watcher][2].none

\* C7 (as claimed): once the Sentinel is pushed, no further line is consumed
\* and no further action is executed.
C7_NothingAfterPush ==
    [][\A p \in Procs :
          SentinelPushed(p)
              => /\ executed'[p] = executed[p]
                 /\ (consumed'[p] # consumed[p] => Last(consumed'[p]).none)]_vars
\* C7 (amended): once the Dispatcher has got the Sentinel its loop has exited
\* and it consumes no entry and executes no action any more; and after the
\* Sentinel is pushed the Dispatcher thread eventually ends.
C7_NothingAfterPop ==
    /\ [][\A p \in Procs :
             SentinelPopped(p)
                 => /\ monPc[p] = "done" /\ monPc'[p] = "done"
                    /\ executed'[p] = executed[p]
                    /\ consumed'[p] = consumed[p]]_vars
    /\ SentinelPushed(Watcher) ~> (monPc[Watcher] \in {"done", "crashed"})
C7_Witness ==
    /\ monPc[Watcher] = "done" /\ SentinelPopped(Watcher)
    /\ Len(consumed[Watcher]) >= 2 /\ Len(executed[Watcher]) >= 1

\* C8: after the configuration failed to load at startup the process ingests
\* no further line.
C8_LoadFailureStopsIngestion ==
    [][\A p \in Procs :
          (monPc[p] = "crashed" /\ config[p] = NoConfig)
              => ~(enqueued'[p] # enqueued[p] /\ ~Last(enqueued'[p]).none)]_vars

\* C9: a process that pushed the Sentinel is Stopped only after its
\* Dispatcher has got the Sentinel and left its loop.
C9_StoppedAfterSentinelPopped ==
    \A p \in Procs :
        (Stopped(p) /\ SentinelPushed(p))
            => (monPc[p] = "done" /\ SentinelPopped(p))

\* C10: the queue's history holds at most one Sentinel, and it is the last
\* entry: no Line is enqueued after it.
C10_OneSentinelLast ==
    \A p \in Procs :
        \A i \in 1..Len(enqueued[p]) :
            enqueued[p][i].none => i = Len(enqueued[p])
C10_Witness ==
    /\ pc[Watcher] = "finished" /\ SentinelPushed(Watcher)
    /\ Len(enqueued[Watcher]) >= 2

\* the lifecycle state of a process whose main thread is at c and whose
\* monitor thread is at m
LifeOf(c, m) ==
    IF c = "dead" \/ (c \in EndedPcs /\ m \in MonEndedPcs) THEN "Stopped"
    ELSE IF m = "none" THEN "NotRunning"
    ELSE IF c = "readline" THEN "Running"
    ELSE "Draining"

\* C11 (as claimed): a process's lifecycle state changes only along
\* NotRunning -> Running (after Acquired), Running -> Draining,
\* Draining -> Stopped, and NotRunning -> Stopped after AlreadyRunning.
C11_LifecycleAsClaimed ==
    [][\A p \in Procs :
          LET a == LifeOf(pc[p], monPc[p])
              b == LifeOf(pc'[p], monPc'[p])
          IN  a # b =>
                \/ a = "NotRunning" /\ b = "Running" /\ pc[p] = "spawn"
                \/ a = "Running" /\ b = "Draining"
                \/ a = "Draining" /\ b = "Stopped"
                \/ a = "NotRunning" /\ b = "Stopped" /\ pc[p] = "already"]_vars
\* C11 (amended): the same edges, and NotRunning -> Stopped also when the main
\* thread dies from an uncaught exception before the pipeline is started; a
\* process told AlreadyRunning only ends: it has no Dispatcher, no queue
\* entry, no configuration and no executed action.
C11_Lifecycle ==
    /\ [][\A p \in Procs :
             LET a == LifeOf(pc[p], monPc[p])
                 b == LifeOf(pc'[p], monPc'[p])
             IN  /\ a # b =>
                      \/ a = "NotRunning" /\ b = "Running" /\ pc[p] = "spawn"
                      \/ a = "Running" /\ b = "Draining"
                      \/ a = "Draining" /\ b = "Stopped"
                      \/ a = "NotRunning" /\ b = "Stopped"
                            /\ (pc[p] = "already" \/ pc'[p] = "aborted")
                 /\ pc[p] = "already"
                      => pc'[p] \in {"already", "finished", "aborted"}]_vars
    /\ [](\A p \in Procs :
             (pc[p] = "already" \/ (pc[p] \in EndedPcs /\ monPc[p] = "none"))
                 => /\ monPc[p] = "none" /\ config[p] = NoConfig
                    /\ enqueued[p] = <<>> /\ consumed[p] = <<>>
                    /\ executed[p] = <<>>)
C11_Witness ==
    /\ pc[Watcher] = "finished" /\ monPc[Watcher] = "none"
    /\ pidFile = PidText(Watcher)

\* C12: a refresh check made while the file's modification timestamp equals
\* the one the Dispatcher holds reloads nothing and leaves the held rule set
\* and timestamp as they are; and a refresh check made while the file still
\* has the timestamp the previous check read does not reload.
C12_RefreshIdempotent ==
    [][\A p \in Procs :
          (monPc[p] = "check" /\ monPc'[p] \notin {"check", "crashed"})
              => /\ cfgFile.mtime = last_modified[p]
                    => /\ monPc'[p] = "match"
                       /\ config'[p] = config[p]
                       /\ last_modified'[p] = last_modified[p]
                 /\ cfgFile.mtime = seen[p] => monPc'[p] = "match"]_vars
C12_Witness ==
    /\ monPc[Watcher] = "match" /\ Len(consumed[Watcher]) = 2
    /\ seen[Watcher] = cfgFile.mtime /\ cfgFile.mtime = 2
    /\ last_modified[Watcher] = 2 /\ config[Watcher] = RulesB

\* C13: while the configuration the Dispatcher holds has zero rules, no
\* action is executed.
C13_NoRulesNoAction ==
    [][\A p \in Procs :
          config[p] = RulesNone => executed'[p] = executed[p]]_vars
C13_Witness ==
    /\ config[Watcher] = RulesNone /\ monPc[Watcher] = "get"
    /\ Len(consumed[Watcher]) = 2 /\ ~Last(consumed[Watcher]).none
    /\ executed[Watcher] = <<>>

\* C14: a step in which an executed action fails only advances the loop to
\* the next rule: it changes neither the Dispatcher's position, rule set,
\* timestamp or queue nor the main thread; and after a failed action the
\* Dispatcher leaves the loop only to get the next queue entry.
C14_FailureIgnored ==
    [][\A p \in Procs :
          /\ (executed'[p] # executed[p] /\ status'[p] = 1)
                => /\ monPc'[p] = "match" /\ idx'[p] = idx[p] + 1
                   /\ config'[p] = config[p] /\ queue'[p] = queue[p]
                   /\ last_modified'[p] = last_modified[p]
                   /\ pc'[p] = pc[p]
          /\ (status[p] = 1 /\ monPc[p] = "match" /\ monPc'[p] # "match")
                => monPc'[p] = "get"]_vars
C14_Witness ==
    /\ monPc[Watcher] = "match" /\ status[Watcher] = 1
    /\ Len(consumed[Watcher]) = 2 /\ config[Watcher] = RulesA
    /\ idx[Watcher] = 3 /\ line[Watcher] = <<"b", "\n">>

\* a process that returned from daemon_already_running with False
Acquired(p) == pc[p] = "spawn" \/ monPc[p] # "none"

\* C15: when acquisition attempts do not overlap and some live process has
\* acquired, the record names a live process that acquired, and at most one
\* live process has acquired.
C15_RecordNamesLiveOwner ==
    (\E p \in Alive : Acquired(p))
        => /\ pidFile.exists /\ pidFile.text # <<>>
           /\ pidFile.text[1] \in Alive /\ Acquired(pidFile.text[1])
           /\ Cardinality({p \in Alive : Acquired(p)}) <= 1
C15_Witness ==
    \E p \in Procs, q \in Procs, r \in Procs :
        /\ Running(p) /\ pidFile = PidText(p)
        /\ pc[q] = "finished" /\ monPc[q] = "none"
        /\ pc[r] = "dead" /\ monPc[r] = "load"

\* C16: whenever the timestamp the Dispatcher recorded equals the file's
\* current modification timestamp and the file holds a rule set, the rule
\* set the Dispatcher holds is the file's.
C16_TimestampNeverNewer ==
    \A p \in Procs :
        (last_modified[p] = cfgFile.mtime /\ Truthy(cfgFile.doc))
            => config[p] = cfgFile.doc

\* C17: a refresh that loads the file changes the recorded timestamp if and
\* only if it replaces the held configuration by the loaded document.
C17_ReplacedTogether ==
    [][\A p \in Procs :
          (monPc[p] = "reload" /\ monPc'[p] = "match")
              => ((last_modified'[p] # last_modified[p])
                      <=> (config'[p] = cfgFile.doc))]_vars

\* C18: once startup has succeeded with a rule set, the Dispatcher thread
\* does not die leaving a line of input on the queue (every enqueued Line
\* gets consumed and matched).
C18_NoLineStranded ==
    \A p \in Procs :
        (monPc[p] = "crashed" /\ last_modified[p] # 0
              /\ config[p].kind = "rules")
            => \A i \in 1..Len(queue[p]) :
                   queue[p][i].none \/ queue[p][i].text = EOF

\* C19: every non-Sentinel entry ever enqueued is a line of the input
\* stream: none is the '' that readline returns at end of input.
C19_EntriesAreInputLines ==
    \A p \in Procs :
        \A i \in 1..Len(enqueued[p]) :
            enqueued[p][i].none \/ enqueued[p][i].text # EOF

====
